---- MODULE Spec2Model ----
(***************************************************************************)
(* Model of the SOP checker (src/checker.py): the spec loader, the SOP      *)
(* reader and validator, the minterm enumerator, the reservoir sampler and  *)
(* the four checks of main(), as a state machine that follows main() line   *)
(* by line.  Strings are sequences of one-character strings.                *)
(***************************************************************************)
EXTENDS Integers, Sequences, FiniteSets, TLC

\* ------------------------------------------------------------------ bounds
MaxBits == 2
MaxLines == 2
MaxDc == 1
MaxSample == 1
MaxLongLines == 3
MaxEnumBits == 3
MaxCap == 2
MaxOffers == 4
MaxItem == 2
MaxPermLines == 3
MaxPermDc == 0

\* ------------------------------------------------------------ input alphabets
Chars == {"0", "1", "-", "x", " "}

Pow2(e) == 2 ^ e

Min(a, b) == IF a <= b THEN a ELSE b

Max(a, b) == IF a >= b THEN a ELSE b

StringsOfLen(alphabet, len) == [1..len -> alphabet]

StringsUpTo(alphabet, len) == UNION {StringsOfLen(alphabet, l) : l \in 0..len}

SeqsUpTo(S, len) == UNION {[1..l -> S] : l \in 0..len}

SubsetsUpTo(S, c) == {T \in SUBSET S : Cardinality(T) <= c}

\* The spec files tried: a bit width, an on-set and a don't-care set whose
\* values range over the minterms of that width and one value beyond them.
SpecFiles ==
  UNION {[n : {w}, on : SUBSET (0..Pow2(w)), dc : SubsetsUpTo(0..Pow2(w), MaxDc)]
           : w \in 0..MaxBits}

\* The SOP files tried: at most MaxLines lines (already without their line
\* ends), each of at most MaxBits characters.
SopFiles == SeqsUpTo(StringsUpTo(Chars, MaxBits), MaxLines)

\* A second family of inputs: longer SOP files against the functions that are
\* true at minterm 0 or nowhere, with no don't-care set.
NarrowSpecFiles == [n : 0..MaxBits, on : SUBSET {0}, dc : {{}}]

LongSopFiles == SeqsUpTo(StringsUpTo(Chars, MaxBits), MaxLongLines)

\* --------------------------------------------------------------- bit helpers
RECURSIVE BitOr(_, _)
BitOr(a, b) ==
  IF a = 0 THEN b
  ELSE IF b = 0 THEN a
  ELSE Max(a % 2, b % 2) + 2 * BitOr(a \div 2, b \div 2)

\* ------------------------------------------------------- iter_implicant_minterms
\* ScanChar with the first character taken as the least significant bit.
ScanCharLsbFirst(st, i, ch, n) ==
  LET bitpos == i IN
  IF ch = "1" THEN [st EXCEPT !.base_val = BitOr(st.base_val, Pow2(bitpos))]
  ELSE IF ch = "-" THEN [st EXCEPT !.free_positions = Append(st.free_positions, bitpos)]
  ELSE st

\* One turn of the loop over the characters: i is the 0-based index.
ScanChar(st, i, ch, n) ==
  LET bitpos == n - 1 - i IN
  IF ch = "1" THEN [st EXCEPT !.base_val = BitOr(st.base_val, Pow2(bitpos))]
  ELSE IF ch = "-" THEN [st EXCEPT !.free_positions = Append(st.free_positions, bitpos)]
  ELSE st

RECURSIVE ScanFrom(_, _, _, _)
ScanFrom(st, i, impl, n) ==
  IF i >= Len(impl) THEN st
  ELSE ScanFrom(ScanChar(st, i, impl[i + 1], n), i + 1, impl, n)

ScanImplicant(impl, n) ==
  ScanFrom([base_val |-> 0, free_positions |-> <<>>], 0, impl, n)

\* The inner while loop: the value yielded for one mask.
RECURSIVE MaskLoop(_, _, _, _)
MaskLoop(v, m, j, free_positions) ==
  IF j < Len(free_positions)
  THEN MaskLoop(IF m % 2 = 1 THEN BitOr(v, Pow2(free_positions[j + 1])) ELSE v,
                m \div 2, j + 1, free_positions)
  ELSE v

MaskValue(st, mask) == MaskLoop(st.base_val, mask, 0, st.free_positions)

\* How many values the generator yields, and the t-th of them (t from 0).
YieldCount(impl, n) ==
  IF n = 0 THEN 1 ELSE Pow2(Len(ScanImplicant(impl, n).free_positions))

YieldAt(impl, n, t) ==
  IF n = 0 THEN 0 ELSE MaskValue(ScanImplicant(impl, n), t)

\* ------------------------------------------------------------- read_sop_file
Strip(line) ==
  LET keep == {p \in 1..Len(line) : line[p] # " "} IN
  IF keep = {} THEN <<>>
  ELSE LET lo == CHOOSE p \in keep : \A q \in keep : p <= q
           hi == CHOOSE p \in keep : \A q \in keep : p >= q
       IN SubSeq(line, lo, hi)

\* One turn of the loop over the lines of the file.
ReadLine(impls, ln, n) ==
  LET line == Strip(ln) IN
  IF line = <<>>
  THEN IF n = 0 THEN Append(impls, <<>>) ELSE impls
  ELSE Append(impls, line)

\* ---------------------------------------------------------- validate_implicant
\* validate_implicant without the loop over the characters.
validate_implicantLengthOnly(impl, n) ==
  IF n = 0
  THEN IF impl # <<>> THEN "zero width" ELSE "ok"
  ELSE IF Len(impl) # n THEN "length"
  ELSE "ok"

validate_implicant(impl, n) ==
  IF n = 0
  THEN IF impl # <<>> THEN "zero width" ELSE "ok"
  ELSE IF Len(impl) # n THEN "length"
  ELSE IF \E p \in 1..Len(impl) : impl[p] \notin {"0", "1", "-"} THEN "character"
  ELSE "ok"

\* --------------------------------------------------------------- reservoir_add
\* reservoir_add that still appends when total_seen is cap + 1.
reservoir_addOneMore(sample, cap, total_seen, item, j) ==
  IF cap <= 0 THEN sample
  ELSE IF total_seen <= cap + 1 THEN Append(sample, item)
  ELSE IF j <= cap THEN [sample EXCEPT ![j] = item]
  ELSE sample

\* j is the value random.randint(1, total_seen) returns when it is called.
reservoir_add(sample, cap, total_seen, item, j) ==
  IF cap <= 0 THEN sample
  ELSE IF total_seen <= cap THEN Append(sample, item)
  ELSE IF j <= cap THEN [sample EXCEPT ![j] = item]
  ELSE sample

\* -------------------------------------------------------------- count_literals
\* The inner loop over the characters of one implicant, from position p on.
RECURSIVE CountChars(_, _, _)
CountChars(c, impl, p) ==
  IF p > Len(impl) THEN c
  ELSE CountChars(IF impl[p] = "0" \/ impl[p] = "1" THEN c + 1 ELSE c, impl, p + 1)

RECURSIVE CountFrom(_, _, _)
CountFrom(c, impls, p) ==
  IF p > Len(impls) THEN c ELSE CountFrom(CountChars(c, impls[p], 1), impls, p + 1)

count_literals(impls) == CountFrom(0, impls, 1)

read_sop_file(lines, n) ==
  LET RECURSIVE Loop(_, _)
      Loop(impls, p) ==
        IF p > Len(lines) THEN impls ELSE Loop(ReadLine(impls, lines[p], n), p + 1)
  IN Loop(<<>>, 1)

\* ------------------------------------------------------ loop bodies of main()
\* DupIter that records the latest line of a string instead of the first.
DupIterLatest(st, i, impl) ==
  IF impl \in DOMAIN st.seen
  THEN [st EXCEPT !.dup_count = st.dup_count + 1, !.seen = (impl :> i) @@ st.seen]
  ELSE [st EXCEPT !.seen = (impl :> i) @@ st.seen]

\* DupIter that remembers only the string of the line before.
DupIterPrevious(st, i, impl) ==
  IF impl \in DOMAIN st.seen
  THEN [st EXCEPT !.dup_count = st.dup_count + 1]
  ELSE [st EXCEPT !.seen = (impl :> i)]

\* Lines 104-109: one turn of the duplicate loop, without the sampling.
DupIter(st, i, impl) ==
  IF impl \in DOMAIN st.seen
  THEN [st EXCEPT !.dup_count = st.dup_count + 1]
  ELSE [st EXCEPT !.seen = (impl :> i) @@ st.seen]

\* Lines 118-121: one enumerated minterm, without the sampling.
CoverIter(st, m, on, allowed) ==
  IF m \in on THEN [st EXCEPT !.covered_on = st.covered_on \cup {m}]
  ELSE IF m \notin allowed THEN [st EXCEPT !.off_hit_count = st.off_hit_count + 1]
  ELSE st

\* Line 114: the implicants that are non-empty after stripping.
ValidImplicants(impls) ==
  LET RECURSIVE Loop(_, _)
      Loop(acc, p) ==
        IF p > Len(impls) THEN acc
        ELSE Loop(IF Strip(impls[p]) # <<>> THEN Append(acc, Strip(impls[p])) ELSE acc, p + 1)
  IN Loop(<<>>, 1)

\* Line 97 with > in place of >=.
FailLiteralProductStrict(n, on, lits) ==
  (n > 0) /\ (Cardinality(on) > 0) /\ (lits > Cardinality(on) * n)

\* Line 97.
FailLiteralProduct(n, on, lits) ==
  (n > 0) /\ (Cardinality(on) > 0) /\ (lits >= Cardinality(on) * n)

\* Line 136 without the off-set term.
PassedIgnoringOffSet(dups, uncovered, offhits, fail_literal) ==
  (dups = 0) /\ (uncovered = 0) /\ (~fail_literal)

\* Line 136.
Passed(dups, uncovered, offhits, fail_literal) ==
  (dups = 0) /\ (uncovered = 0) /\ (offhits = 0) /\ (~fail_literal)

\* An output line: its fixed text, the numbers and the examples put into it.
Line(text, args, examples) == [text |-> text, args |-> args, examples |-> examples]

\* ------------------------------------------------------------------- state
VARIABLES
  spec_file,          \* the three lines of the spec file, as values
  sop_file,           \* the lines of the SOP file
  pc,                 \* where main() is
  n_bit, on_set, dc_set, union_allowed,
  implicants,
  idx,                \* index of the running for loop over implicants
  lit_count, fail_literal_product,
  seen, dup_count, dup_sample, k,
  covered_on, off_hit_count, off_hit_sample, valid_implicants,
  ci, mask,           \* the implicant being enumerated and the generator's mask
  uncovered_count, uncovered_sample,
  pending,            \* the on-set members the last loop has still to visit
  passed,
  mode,               \* the report chosen by --quiet and --summary, once read
  stdout, stderr, exit_code

mainVars ==
  <<spec_file, sop_file, pc, n_bit, on_set, dc_set, union_allowed, implicants, idx,
    lit_count, fail_literal_product, seen, dup_count, dup_sample, k,
    covered_on, off_hit_count, off_hit_sample, valid_implicants, ci, mask,
    uncovered_count, uncovered_sample, pending, passed, mode, stdout, stderr,
    exit_code>>

\* The enumerator run on its own (iter_implicant_minterms as a generator).
VARIABLES
  g_pc, g_n, g_impl,
  g_i,                \* index of the loop over the characters
  g_st,               \* base_val and free_positions
  g_mask,
  g_out               \* the values yielded so far, in order

enumVars == <<g_pc, g_n, g_impl, g_i, g_st, g_mask, g_out>>

\* One reservoir fed by a caller that counts the items, as main() does.
VARIABLES
  r_cap, r_sample,
  r_count,            \* the caller's counter, passed as total_seen
  r_offered           \* the items passed so far

resVars == <<r_cap, r_sample, r_count, r_offered>>

\* The checks run again on the same implicants in another order.
VARIABLES
  q_spec, q_first,    \* the function and the solution as first given
  q_impls,            \* the solution in its current order
  q_verdict           \* the counters and the result main() computes for q_impls

permVars == <<q_spec, q_first, q_impls, q_verdict>>

vars == <<mainVars, enumVars, resVars, permVars>>

NoDict == [x \in {} |-> 0]

MainStart(specs, sops, at) ==
  /\ spec_file \in specs
  /\ sop_file \in sops
  /\ pc = at
  /\ n_bit = 0 /\ on_set = {} /\ dc_set = {} /\ union_allowed = {}
  /\ implicants = <<>> /\ idx = 0
  /\ lit_count = 0 /\ fail_literal_product = FALSE
  /\ seen = NoDict /\ dup_count = 0 /\ dup_sample = <<>> /\ k = 0
  /\ covered_on = {} /\ off_hit_count = 0 /\ off_hit_sample = <<>>
  /\ valid_implicants = <<>> /\ ci = 0 /\ mask = 0
  /\ uncovered_count = 0 /\ uncovered_sample = <<>> /\ pending = {}
  /\ passed = FALSE /\ mode = "unread"
  /\ stdout = <<>> /\ stderr = <<>> /\ exit_code = -1

\* Lines 88-89.
ParseSpecFile ==
  /\ pc = "parse_spec"
  /\ n_bit' = spec_file.n
  /\ on_set' = spec_file.on
  /\ dc_set' = spec_file.dc
  /\ union_allowed' = spec_file.on \cup spec_file.dc
  /\ pc' = "read_sop"
  /\ UNCHANGED <<enumVars, resVars, permVars>>
  /\ UNCHANGED <<spec_file, sop_file, implicants, idx, lit_count, fail_literal_product,
                 seen, dup_count, dup_sample, k, covered_on, off_hit_count,
                 off_hit_sample, valid_implicants, ci, mask, uncovered_count,
                 uncovered_sample, pending, passed, mode, stdout, stderr, exit_code>>

\* Line 91.
ReadSopFile ==
  /\ pc = "read_sop"
  /\ implicants' = read_sop_file(sop_file, n_bit)
  /\ idx' = 0
  /\ pc' = "validate"
  /\ UNCHANGED <<enumVars, resVars, permVars>>
  /\ UNCHANGED <<spec_file, sop_file, n_bit, on_set, dc_set, union_allowed, lit_count,
                 fail_literal_product, seen, dup_count, dup_sample, k, covered_on,
                 off_hit_count, off_hit_sample, valid_implicants, ci, mask,
                 uncovered_count, uncovered_sample, pending, passed, mode, stdout, stderr,
                 exit_code>>

\* Lines 92-93: an implicant that validates.
ValidateOk ==
  /\ pc = "validate"
  /\ idx < Len(implicants)
  /\ validate_implicant(implicants[idx + 1], n_bit) = "ok"
  /\ idx' = idx + 1
  /\ UNCHANGED <<enumVars, resVars, permVars>>
  /\ UNCHANGED <<spec_file, sop_file, pc, n_bit, on_set, dc_set, union_allowed,
                 implicants, lit_count, fail_literal_product, seen, dup_count,
                 dup_sample, k, covered_on, off_hit_count, off_hit_sample,
                 valid_implicants, ci, mask, uncovered_count, uncovered_sample,
                 pending, passed, mode, stdout, stderr, exit_code>>

\* Lines 92-93 and 202-204: validate_implicant raises, the handler at the top
\* level prints the message to the error stream and exits with code 1.
ValidateRaise ==
  /\ pc = "validate"
  /\ idx < Len(implicants)
  /\ validate_implicant(implicants[idx + 1], n_bit) # "ok"
  /\ stderr' = Append(stderr, Line(validate_implicant(implicants[idx + 1], n_bit),
                                   <<n_bit>>, <<implicants[idx + 1]>>))
  /\ exit_code' = 1
  /\ pc' = "exited"
  /\ UNCHANGED <<enumVars, resVars, permVars>>
  /\ UNCHANGED <<spec_file, sop_file, n_bit, on_set, dc_set, union_allowed, implicants,
                 idx, lit_count, fail_literal_product, seen, dup_count, dup_sample, k,
                 covered_on, off_hit_count, off_hit_sample, valid_implicants, ci, mask,
                 uncovered_count, uncovered_sample, pending, passed, mode, stdout>>

\* Lines 95-97, once the validation loop has ended.
CountLiterals ==
  /\ pc = "validate"
  /\ idx = Len(implicants)
  /\ lit_count' = count_literals(implicants)
  /\ fail_literal_product' = FailLiteralProduct(n_bit, on_set, count_literals(implicants))
  /\ pc' = "dup_init"
  /\ UNCHANGED <<enumVars, resVars, permVars>>
  /\ UNCHANGED <<spec_file, sop_file, n_bit, on_set, dc_set, union_allowed, implicants,
                 idx, seen, dup_count, dup_sample, k, covered_on, off_hit_count,
                 off_hit_sample, valid_implicants, ci, mask, uncovered_count,
                 uncovered_sample, pending, passed, mode, stdout, stderr, exit_code>>

\* Lines 99-102: sample is the value of --sample.
DupInit ==
  /\ pc = "dup_init"
  /\ \E sample \in -1..MaxSample : k' = Max(0, sample)
  /\ seen' = NoDict
  /\ dup_count' = 0
  /\ dup_sample' = <<>>
  /\ idx' = 0
  /\ pc' = "dups"
  /\ UNCHANGED <<enumVars, resVars, permVars>>
  /\ UNCHANGED <<spec_file, sop_file, n_bit, on_set, dc_set, union_allowed, implicants,
                 lit_count, fail_literal_product, covered_on, off_hit_count,
                 off_hit_sample, valid_implicants, ci, mask, uncovered_count,
                 uncovered_sample, pending, passed, mode, stdout, stderr, exit_code>>

\* Lines 103-109: one turn of the duplicate loop.
DupStep ==
  /\ pc = "dups"
  /\ idx < Len(implicants)
  /\ LET impl == implicants[idx + 1]
         st == DupIter([seen |-> seen, dup_count |-> dup_count], idx, impl)
     IN /\ seen' = st.seen
        /\ dup_count' = st.dup_count
        /\ IF impl \in DOMAIN seen
           THEN \E j \in 1..st.dup_count :
                  dup_sample' = reservoir_add(dup_sample, k, st.dup_count,
                                              <<seen[impl], idx, impl>>, j)
           ELSE dup_sample' = dup_sample
  /\ idx' = idx + 1
  /\ UNCHANGED <<enumVars, resVars, permVars>>
  /\ UNCHANGED <<spec_file, sop_file, pc, n_bit, on_set, dc_set, union_allowed,
                 implicants, lit_count, fail_literal_product, k, covered_on,
                 off_hit_count, off_hit_sample, valid_implicants, ci, mask,
                 uncovered_count, uncovered_sample, pending, passed, mode, stdout, stderr,
                 exit_code>>

\* Lines 111-114, once the duplicate loop has ended.
CoverInit ==
  /\ pc = "dups"
  /\ idx = Len(implicants)
  /\ covered_on' = {}
  /\ off_hit_count' = 0
  /\ off_hit_sample' = <<>>
  /\ valid_implicants' = ValidImplicants(implicants)
  /\ ci' = 0
  /\ mask' = 0
  /\ pc' = "cover"
  /\ UNCHANGED <<enumVars, resVars, permVars>>
  /\ UNCHANGED <<spec_file, sop_file, n_bit, on_set, dc_set, union_allowed, implicants,
                 idx, lit_count, fail_literal_product, seen, dup_count, dup_sample, k,
                 uncovered_count, uncovered_sample, pending, passed, mode, stdout, stderr,
                 exit_code>>

\* Lines 116-122: the generator yields one minterm and the loop body handles it.
CoverStep ==
  /\ pc = "cover"
  /\ ci < Len(valid_implicants)
  /\ LET impl == valid_implicants[ci + 1]
         m == YieldAt(impl, n_bit, mask)
         st == CoverIter([covered_on |-> covered_on, off_hit_count |-> off_hit_count],
                         m, on_set, union_allowed)
     IN /\ covered_on' = st.covered_on
        /\ off_hit_count' = st.off_hit_count
        /\ IF st.off_hit_count # off_hit_count
           THEN \E j \in 1..st.off_hit_count :
                  off_hit_sample' = reservoir_add(off_hit_sample, k, st.off_hit_count, m, j)
           ELSE off_hit_sample' = off_hit_sample
        /\ IF mask + 1 < YieldCount(impl, n_bit)
           THEN mask' = mask + 1 /\ ci' = ci
           ELSE mask' = 0 /\ ci' = ci + 1
  /\ UNCHANGED <<enumVars, resVars, permVars>>
  /\ UNCHANGED <<spec_file, sop_file, pc, n_bit, on_set, dc_set, union_allowed,
                 implicants, idx, lit_count, fail_literal_product, seen, dup_count,
                 dup_sample, k, valid_implicants, uncovered_count, uncovered_sample,
                 pending, passed, mode, stdout, stderr, exit_code>>

\* Lines 124-125, once every valid implicant has been enumerated.
UncoveredInit ==
  /\ pc = "cover"
  /\ ci = Len(valid_implicants)
  /\ uncovered_count' = 0
  /\ uncovered_sample' = <<>>
  /\ pending' = on_set
  /\ pc' = "uncovered"
  /\ UNCHANGED <<enumVars, resVars, permVars>>
  /\ UNCHANGED <<spec_file, sop_file, n_bit, on_set, dc_set, union_allowed, implicants,
                 idx, lit_count, fail_literal_product, seen, dup_count, dup_sample, k,
                 covered_on, off_hit_count, off_hit_sample, valid_implicants, ci, mask,
                 passed, mode, stdout, stderr, exit_code>>

\* Lines 126-134: one turn of the loop over the on-set (a set: in any order).
UncoveredStep ==
  /\ pc = "uncovered"
  /\ \E m \in pending :
       /\ pending' = pending \ {m}
       /\ IF k > 0
          THEN IF m \notin covered_on
               THEN /\ uncovered_count' = uncovered_count + 1
                    /\ \E j \in 1..(uncovered_count + 1) :
                         uncovered_sample' = reservoir_add(uncovered_sample, k,
                                                           uncovered_count + 1, m, j)
               ELSE UNCHANGED <<uncovered_count, uncovered_sample>>
          ELSE /\ uncovered_count' = IF m \notin covered_on THEN uncovered_count + 1
                                     ELSE uncovered_count
               /\ UNCHANGED uncovered_sample
  /\ UNCHANGED <<enumVars, resVars, permVars>>
  /\ UNCHANGED <<spec_file, sop_file, pc, n_bit, on_set, dc_set, union_allowed,
                 implicants, idx, lit_count, fail_literal_product, seen, dup_count,
                 dup_sample, k, covered_on, off_hit_count, off_hit_sample,
                 valid_implicants, ci, mask, passed, mode, stdout, stderr, exit_code>>

\* Line 136, once the loop over the on-set has ended.
Verdict ==
  /\ pc = "uncovered"
  /\ pending = {}
  /\ passed' = Passed(dup_count, uncovered_count, off_hit_count, fail_literal_product)
  /\ pc' = "print"
  /\ UNCHANGED <<enumVars, resVars, permVars>>
  /\ UNCHANGED <<spec_file, sop_file, n_bit, on_set, dc_set, union_allowed, implicants,
                 idx, lit_count, fail_literal_product, seen, dup_count, dup_sample, k,
                 covered_on, off_hit_count, off_hit_sample, valid_implicants, ci, mask,
                 uncovered_count, uncovered_sample, pending, mode, stdout, stderr, exit_code>>

PrintUnchanged ==
  /\ UNCHANGED <<enumVars, resVars, permVars>>
  /\ UNCHANGED <<spec_file, sop_file, n_bit, on_set, dc_set, union_allowed, implicants,
                 idx, lit_count, fail_literal_product, seen, dup_count, dup_sample, k,
                 covered_on, off_hit_count, off_hit_sample, valid_implicants, ci, mask,
                 uncovered_count, uncovered_sample, pending, passed, stderr>>

\* Lines 138-143: --quiet.
PrintQuiet ==
  /\ pc = "print"
  /\ mode' = "quiet"
  /\ stdout' = IF passed THEN <<Line("PASS", <<lit_count>>, <<>>)>>
               ELSE <<Line("FAIL", <<>>, <<>>)>>
  /\ exit_code' = 0
  /\ pc' = "exited"
  /\ PrintUnchanged

SummaryLines ==
  <<Line("bit width:", <<n_bit>>, <<>>),
    Line("on-set size:", <<Cardinality(on_set)>>, <<>>),
    Line("dc-set size:", <<Cardinality(dc_set)>>, <<>>),
    Line("SOP implicants:", <<Len(implicants)>>, <<>>),
    Line("SOP literals:", <<lit_count>>, <<>>)>>

\* Lines 145-152: --summary without --quiet.
PrintSummary ==
  /\ pc = "print"
  /\ mode' = "summary"
  /\ stdout' = SummaryLines
                 \o <<Line(IF passed THEN "result: PASS" ELSE "result: FAIL", <<>>, <<>>)>>
  /\ exit_code' = 0
  /\ pc' = "exited"
  /\ PrintUnchanged

\* Lines 162-194: the line of one check of the detailed report.
CheckLine(count, sample, errText, okText) ==
  IF count # 0
  THEN IF k > 0 /\ sample # <<>> THEN Line(errText, <<count>>, sample)
       ELSE Line(errText, <<count>>, <<>>)
  ELSE Line(okText, <<>>, <<>>)

LiteralLines ==
  IF fail_literal_product
  THEN <<Line("[ERROR] literal count >= |on-set| * n_bit",
              <<lit_count, Cardinality(on_set), n_bit>>, <<>>)>>
  ELSE <<Line("[OK] literal count < |on-set| * n_bit.", <<>>, <<>>)>>
         \o (IF Cardinality(on_set) = 0
             THEN <<Line("[NOTE] |on-set| = 0 (trivially satisfied).", <<>>, <<>>)>>
             ELSE <<>>)

\* Lines 154-197: the detailed report.
PrintDetailed ==
  /\ pc = "print"
  /\ mode' = "detailed"
  /\ stdout' = <<Line("====", <<>>, <<>>)>> \o SummaryLines
         \o <<Line("----", <<>>, <<>>),
              CheckLine(dup_count, dup_sample, "[ERROR] duplicate implicants found",
                        "[OK] no duplicate implicants."),
              Line("----", <<>>, <<>>)>>
         \o LiteralLines
         \o <<Line("----", <<>>, <<>>),
              CheckLine(uncovered_count, uncovered_sample, "[ERROR] on-set not covered",
                        "[OK] all on-set terms covered."),
              Line("----", <<>>, <<>>),
              CheckLine(off_hit_count, off_hit_sample, "[ERROR] SOP covers off-set",
                        "[OK] SOP does not cover off-set."),
              Line("====", <<>>, <<>>),
              Line(IF passed THEN "[RESULT] PASS" ELSE "[RESULT] FAIL", <<>>, <<>>)>>
  /\ exit_code' = 0
  /\ pc' = "exited"
  /\ PrintUnchanged

MainNext ==
  \/ ParseSpecFile
  \/ ReadSopFile
  \/ ValidateOk
  \/ ValidateRaise
  \/ CountLiterals
  \/ DupInit
  \/ DupStep
  \/ CoverInit
  \/ CoverStep
  \/ UncoveredInit
  \/ UncoveredStep
  \/ Verdict
  \/ PrintQuiet
  \/ PrintSummary
  \/ PrintDetailed

\* ------------------------------------------------ the enumerator on its own
Literals == {"0", "1", "-"}

EnumStart(widths, at) ==
  /\ g_n \in widths
  /\ g_impl \in StringsOfLen(Literals, g_n)
  /\ g_pc = at
  /\ g_i = 0
  /\ g_st = [base_val |-> 0, free_positions |-> <<>>]
  /\ g_mask = 0
  /\ g_out = <<>>

\* Lines 38-40.
GenZeroWidth ==
  /\ g_pc = "call"
  /\ g_n = 0
  /\ g_out' = Append(g_out, 0)
  /\ g_pc' = "done"
  /\ UNCHANGED <<g_n, g_impl, g_i, g_st, g_mask>>
  /\ UNCHANGED <<mainVars, resVars, permVars>>

\* Lines 41-42.
GenBegin ==
  /\ g_pc = "call"
  /\ g_n # 0
  /\ g_st' = [base_val |-> 0, free_positions |-> <<>>]
  /\ g_i' = 0
  /\ g_pc' = "scan"
  /\ UNCHANGED <<g_n, g_impl, g_mask, g_out>>
  /\ UNCHANGED <<mainVars, resVars, permVars>>

\* Lines 43-48: one character.
GenScan ==
  /\ g_pc = "scan"
  /\ g_i < Len(g_impl)
  /\ g_st' = ScanChar(g_st, g_i, g_impl[g_i + 1], g_n)
  /\ g_i' = g_i + 1
  /\ UNCHANGED <<g_pc, g_n, g_impl, g_mask, g_out>>
  /\ UNCHANGED <<mainVars, resVars, permVars>>

\* Lines 49-50: the loop over the masks starts.
GenMasks ==
  /\ g_pc = "scan"
  /\ g_i = Len(g_impl)
  /\ g_mask' = 0
  /\ g_pc' = "masks"
  /\ UNCHANGED <<g_n, g_impl, g_i, g_st, g_out>>
  /\ UNCHANGED <<mainVars, resVars, permVars>>

\* Lines 50-59: one mask, one value yielded.
GenYield ==
  /\ g_pc = "masks"
  /\ g_mask < Pow2(Len(g_st.free_positions))
  /\ g_out' = Append(g_out, MaskValue(g_st, g_mask))
  /\ g_mask' = g_mask + 1
  /\ UNCHANGED <<g_pc, g_n, g_impl, g_i, g_st>>
  /\ UNCHANGED <<mainVars, resVars, permVars>>

\* The range is exhausted: the generator returns.
GenReturn ==
  /\ g_pc = "masks"
  /\ g_mask = Pow2(Len(g_st.free_positions))
  /\ g_pc' = "done"
  /\ UNCHANGED <<g_n, g_impl, g_i, g_st, g_mask, g_out>>
  /\ UNCHANGED <<mainVars, resVars, permVars>>

EnumNext ==
  \/ GenZeroWidth
  \/ GenBegin
  \/ GenScan
  \/ GenMasks
  \/ GenYield
  \/ GenReturn

\* ------------------------------------------------- the reservoir on its own
ResStart(caps) ==
  /\ r_cap \in caps
  /\ r_sample = <<>>
  /\ r_count = 0
  /\ r_offered = {}

\* The caller counts the item and passes it with the count (lines 105-107,
\* 121-122, 129-130); reservoir_add draws j when it reaches line 67.
Offer ==
  /\ r_count < MaxOffers
  /\ \E item \in 0..MaxItem, j \in 1..(r_count + 1) :
       /\ r_sample' = reservoir_add(r_sample, r_cap, r_count + 1, item, j)
       /\ r_offered' = r_offered \cup {item}
  /\ r_count' = r_count + 1
  /\ UNCHANGED r_cap
  /\ UNCHANGED <<mainVars, enumVars, permVars>>

ResNext == Offer

\* ------------------------------------------- main()'s checks as one function
\* Lines 99-109 without the sampling.
DupScan(impls) ==
  LET RECURSIVE Loop(_, _)
      Loop(st, i) ==
        IF i >= Len(impls) THEN st ELSE Loop(DupIter(st, i, impls[i + 1]), i + 1)
  IN Loop([seen |-> NoDict, dup_count |-> 0], 0)

\* Lines 117-122 for one implicant, without the sampling.
CoverImplicant(st0, impl, n, on, allowed) ==
  LET RECURSIVE Loop(_, _)
      Loop(st, t) ==
        IF t >= YieldCount(impl, n) THEN st
        ELSE Loop(CoverIter(st, YieldAt(impl, n, t), on, allowed), t + 1)
  IN Loop(st0, 0)

\* Lines 111-122 without the sampling.
CoverScan(impls, n, on, allowed) ==
  LET valid == ValidImplicants(impls)
      RECURSIVE Loop(_, _)
      Loop(st, p) ==
        IF p > Len(valid) THEN st
        ELSE Loop(CoverImplicant(st, valid[p], n, on, allowed), p + 1)
  IN Loop([covered_on |-> {}, off_hit_count |-> 0], 1)

\* Lines 95-136: the counters and the result for validated implicants.
MainVerdict(n, on, dc, impls) ==
  LET lits == count_literals(impls)
      fail == FailLiteralProduct(n, on, lits)
      dups == DupScan(impls).dup_count
      cov == CoverScan(impls, n, on, on \cup dc)
      unc == Cardinality({m \in on : m \notin cov.covered_on})
  IN [dup_count |-> dups,
      uncovered_count |-> unc,
      off_hit_count |-> cov.off_hit_count,
      lit_count |-> lits,
      fail_literal_product |-> fail,
      passed |-> Passed(dups, unc, cov.off_hit_count, fail)]

PermSpecFiles ==
  UNION {[n : {w}, on : SUBSET (0..Pow2(w)), dc : SubsetsUpTo(0..Pow2(w), MaxPermDc)]
           : w \in 0..MaxBits}

\* The solutions that validate at width n, of at most len implicants.
ValidSolutions(n, len) == SeqsUpTo(StringsOfLen(Literals, n), len)

PermStart(specs) ==
  /\ q_spec \in specs
  /\ q_first \in ValidSolutions(q_spec.n, MaxPermLines)
  /\ q_impls = q_first
  /\ q_verdict = MainVerdict(q_spec.n, q_spec.on, q_spec.dc, q_first)

\* Two neighbouring lines of the SOP file change places and the checker runs again.
SwapLines ==
  /\ \E p \in 1..(Len(q_impls) - 1) :
       /\ q_impls[p] # q_impls[p + 1]
       /\ q_impls' = [q_impls EXCEPT ![p] = q_impls[p + 1], ![p + 1] = q_impls[p]]
  /\ q_verdict' = MainVerdict(q_spec.n, q_spec.on, q_spec.dc, q_impls')
  /\ UNCHANGED <<q_spec, q_first>>
  /\ UNCHANGED <<mainVars, enumVars, resVars>>

PermNext == SwapLines

\* ----------------------------------------------------------- specifications
NoSpecFile == [n |-> 0, on |-> {}, dc |-> {}]

MainOff == MainStart({NoSpecFile}, {<<>>}, "off")

EnumOff == EnumStart({0}, "off")

ResOff == ResStart({0}) /\ r_count = 0

PermOff ==
  /\ q_spec = NoSpecFile
  /\ q_first = <<>>
  /\ q_impls = <<>>
  /\ q_verdict = MainVerdict(0, {}, {}, <<>>)

\* A run of the checker.
Init ==
  /\ \/ MainStart(SpecFiles, SopFiles, "parse_spec")
     \/ MainStart(NarrowSpecFiles, LongSopFiles, "parse_spec")
  /\ EnumOff /\ ResOff /\ PermOff

Next == MainNext

Spec == Init /\ [][Next]_vars

\* The enumerator called on one validated implicant.
InitEnum == MainOff /\ EnumStart(0..MaxEnumBits, "call") /\ ResOff /\ PermOff

SpecEnum == InitEnum /\ [][EnumNext]_vars

\* One reservoir and its caller.
InitRes == MainOff /\ EnumOff /\ ResStart(-1..MaxCap) /\ PermOff

SpecRes == InitRes /\ [][ResNext]_vars

\* The checker run on a solution and on its reorderings.
InitPerm == MainOff /\ EnumOff /\ ResOff /\ PermStart(PermSpecFiles)

SpecPerm == InitPerm /\ [][PermNext]_vars

\* ------------------------------------------------------------------ claims
Bit(v, p) == (v \div Pow2(p)) % 2

\* The cube of an implicant: the first character is the most significant bit.
Cube(impl, n) ==
  {v \in 0..(Pow2(n) - 1) :
     \A i \in 1..Len(impl) :
       /\ impl[i] = "0" => Bit(v, n - i) = 0
       /\ impl[i] = "1" => Bit(v, n - i) = 1}

FreeCount(impl) == Cardinality({i \in 1..Len(impl) : impl[i] = "-"})

WellFormed(impl, n) == Len(impl) = n /\ \A p \in 1..Len(impl) : impl[p] \in Literals

Range(f) == {f[x] : x \in DOMAIN f}

\* main() has formed its verdict.
VerdictFormed == pc \in {"print", "exited"} /\ exit_code # 1

AllChecksClean ==
  dup_count = 0 /\ uncovered_count = 0 /\ off_hit_count = 0 /\ ~fail_literal_product

\* C1: the verdict is pass exactly when there is no duplicate, no uncovered
\* on-set member, no off-set hit and the literal bound is not exceeded; when
\* the verdict is formed every loop has run to its end, so each counter has its
\* full value; and the terse report is the one line PASS <literalCount> on a
\* pass and FAIL otherwise.
C1_VerdictAndTerseLine ==
  /\ VerdictFormed =>
       /\ passed = AllChecksClean
       /\ idx = Len(implicants) /\ ci = Len(valid_implicants) /\ pending = {}
       /\ dup_count = DupScan(implicants).dup_count
       /\ off_hit_count = CoverScan(implicants, n_bit, on_set, union_allowed).off_hit_count
       /\ covered_on = CoverScan(implicants, n_bit, on_set, union_allowed).covered_on
       /\ uncovered_count = Cardinality(on_set \ covered_on)
       /\ lit_count = count_literals(implicants)
  /\ mode = "quiet" =>
       stdout = IF AllChecksClean THEN <<Line("PASS", <<lit_count>>, <<>>)>>
                ELSE <<Line("FAIL", <<>>, <<>>)>>

C1_Witness ==
  /\ pc = "exited" /\ mode = "quiet"
  /\ n_bit = 2 /\ on_set = {0, 1, 2, 3} /\ implicants = <<<<"-", "-">>>>
  /\ stdout = <<Line("PASS", <<0>>, <<>>)>>

\* C2: for a width n > 0 and an implicant of n characters with f free
\* positions the generator yields 2^f values, pairwise distinct, each in
\* [0, 2^n), and together exactly the cube of the implicant.
C2_EnumeratesCube ==
  (g_pc = "done" /\ g_n > 0) =>
    /\ Len(g_out) = Pow2(FreeCount(g_impl))
    /\ \A a, b \in 1..Len(g_out) : a # b => g_out[a] # g_out[b]
    /\ \A a \in 1..Len(g_out) : g_out[a] \in 0..(Pow2(g_n) - 1)
    /\ Range(g_out) = Cube(g_impl, g_n)

C2_Witness ==
  /\ g_pc = "done" /\ g_n = 3 /\ g_impl = <<"-", "1", "-">>
  /\ Range(g_out) = {2, 3, 6, 7} /\ Len(g_out) = 4

\* The minterms the solution covers.
Covered == UNION {Cube(implicants[p], n_bit) : p \in 1..Len(implicants)}

\* C3: the uncovered count is the number of on-set members in no implicant's
\* cube, whatever the sample limit.
C3_UncoveredIsOnSetMinusCubes ==
  VerdictFormed => uncovered_count = Cardinality(on_set \ Covered)

\* C3 at a positive width, where the code agrees with it.
UncoveredAtPositiveWidth ==
  (VerdictFormed /\ n_bit > 0) => uncovered_count = Cardinality(on_set \ Covered)

RECURSIVE SumOver(_, _)
SumOver(f, S) ==
  IF S = {} THEN 0
  ELSE LET x == CHOOSE y \in S : TRUE IN f[x] + SumOver(f, S \ {x})

\* The off-set minterms in the cube of each implicant, added up.
OffSetHits ==
  SumOver([p \in 1..Len(implicants) |->
             Cardinality(Cube(implicants[p], n_bit) \ (on_set \cup dc_set))],
          1..Len(implicants))

\* C4: the off-set hit count is the number of minterms of each implicant's cube
\* that are neither in the on-set nor in the don't-care set, added up over the
\* implicants.
C4_OffHitsPerImplicant ==
  VerdictFormed => off_hit_count = OffSetHits

\* C4 at a positive width, where the code agrees with it.
OffHitsAtPositiveWidth ==
  (VerdictFormed /\ n_bit > 0) => off_hit_count = OffSetHits

\* The 0 and 1 characters of the solution, by position.
LiteralPositions ==
  {pq \in (1..Len(implicants)) \X (1..MaxBits) :
     /\ pq[2] <= Len(implicants[pq[1]])
     /\ implicants[pq[1]][pq[2]] \in {"0", "1"}}

LiteralsCounted == pc \notin {"off", "parse_spec", "read_sop", "validate"} /\ exit_code # 1

\* C5: the literal count is the number of 0 and 1 characters of the
\* implicants, and the bound is flagged exactly when the width and the on-set
\* are not empty and the count is at least |on-set| * width.
C5_LiteralBound ==
  LiteralsCounted =>
    /\ lit_count = Cardinality(LiteralPositions)
    /\ fail_literal_product =
         (n_bit > 0 /\ on_set # {} /\ lit_count >= Cardinality(on_set) * n_bit)

C5_Witness ==
  /\ pc = "exited" /\ n_bit = 2 /\ on_set = {0} /\ implicants = <<<<"0", "0">>>>
  /\ lit_count = 2 /\ fail_literal_product
  /\ dup_count = 0 /\ uncovered_count = 0 /\ off_hit_count = 0 /\ ~passed

DupLoopAt == IF pc = "dups" THEN idx ELSE Len(implicants)

DupsCounted == pc \in {"dups", "cover", "uncovered", "print", "exited"} /\ exit_code # 1

\* C6: the duplicate count is the number of implicants equal, as strings, to
\* an earlier one, and every sampled duplicate names the first line with that
\* string and the line of the repeat (both from 0).
C6_TextualDuplicates ==
  DupsCounted =>
    /\ dup_count = DupLoopAt - Cardinality({implicants[p] : p \in 1..DupLoopAt})
    /\ \A e \in Range(dup_sample) :
         /\ e[1] \in 0..(Len(implicants) - 1) /\ e[2] \in 0..(Len(implicants) - 1)
         /\ e[1] < e[2]
         /\ implicants[e[1] + 1] = e[3] /\ implicants[e[2] + 1] = e[3]
         /\ \A p \in 1..e[1] : implicants[p] # e[3]

C6_Witness ==
  /\ pc = "exited" /\ exit_code = 0
  /\ implicants = <<<<"0", "1">>, <<"0", "1">>, <<"-", "0">>>>
  /\ dup_count = 1
  /\ dup_sample = <<<<0, 1, <<"0", "1">>>>>>

\* C7: at width 0 a file of one blank line is one empty implicant that covers
\* minterm 0: an on-set {0} is covered, and a 0 outside both sets is an
\* off-set hit.
C7_ZeroWidthImplicantCovers ==
  (VerdictFormed /\ n_bit = 0 /\ sop_file = <<<<>>>>) =>
    /\ implicants = <<<<>>>>
    /\ on_set = {0} => (uncovered_count = 0 /\ passed)
    /\ 0 \notin (on_set \cup dc_set) => off_hit_count = 1

FirstIllFormed ==
  CHOOSE p \in 1..Len(implicants) :
    /\ ~WellFormed(implicants[p], n_bit)
    /\ \A q \in 1..(p - 1) : WellFormed(implicants[q], n_bit)

\* C8: an implicant of the wrong length or with a character other than 0, 1
\* and - ends the run at the first such implicant with a message on the error
\* stream and exit code 1, before any check has run and with nothing on
\* standard output; a run whose implicants all validate exits with code 0.
C8_ValidationFailsFast ==
  LET illFormed == {p \in 1..Len(implicants) : ~WellFormed(implicants[p], n_bit)} IN
  /\ (pc \notin {"parse_spec", "read_sop", "validate"} /\ illFormed # {}) =>
       /\ pc = "exited" /\ exit_code = 1
       /\ stdout = <<>> /\ Len(stderr) = 1
       /\ idx + 1 = FirstIllFormed
       /\ stderr[1].examples = <<implicants[FirstIllFormed]>>
       /\ mode = "unread" /\ passed = FALSE
       /\ lit_count = 0 /\ seen = NoDict /\ dup_count = 0 /\ valid_implicants = <<>>
       /\ covered_on = {} /\ off_hit_count = 0 /\ uncovered_count = 0
  /\ (pc = "exited" /\ illFormed = {}) =>
       /\ exit_code = 0 /\ stderr = <<>> /\ stdout # <<>>
  /\ (pc = "validate" /\ illFormed # {}) => idx < FirstIllFormed

C8_Witness ==
  /\ pc = "exited" /\ exit_code = 1 /\ n_bit = 2
  /\ implicants = <<<<"0", "-">>, <<"0", "x">>, <<"1">>>>
  /\ idx = 1
  /\ stderr = <<Line("character", <<2>>, <<<<"0", "x">>>>)>>

\* C9: after t offers to a reservoir of cap k, whatever was drawn, the sample
\* holds min(max(k, 0), t) elements, each of them an item offered so far; with
\* k <= 0 it stays empty while the caller's count goes on.
C9_ReservoirBounded ==
  /\ Len(r_sample) = Min(Max(r_cap, 0), r_count)
  /\ Len(r_sample) <= Max(r_cap, 0)
  /\ \A a \in 1..Len(r_sample) : r_sample[a] \in r_offered
  /\ r_cap <= 0 => r_sample = <<>>
  /\ r_count > 0 => r_offered # {}

\* The same in main(): each of the three samples holds min(k, count) elements,
\* and they are items of the kind its check offers.
SamplesInMain ==
  /\ Len(dup_sample) = Min(k, dup_count)
  /\ Len(off_hit_sample) = Min(k, off_hit_count)
  /\ Len(uncovered_sample) = Min(k, uncovered_count)
  /\ \A a \in 1..Len(off_hit_sample) : off_hit_sample[a] \notin union_allowed
  /\ \A a \in 1..Len(uncovered_sample) : uncovered_sample[a] \in on_set \ covered_on

C9_Witness ==
  /\ r_cap = 2 /\ r_count = 4 /\ r_offered = {0, 1, 2}
  /\ r_sample = <<2, 1>>

\* C10: the counters, the literal bound and the result are the same for every
\* order of the implicants.
C10_OrderIndependent ==
  q_verdict = MainVerdict(q_spec.n, q_spec.on, q_spec.dc, q_first)

C10_Witness ==
  /\ q_first = <<<<"0", "-">>, <<"1", "1">>, <<"0", "-">>>>
  /\ q_impls = <<<<"1", "1">>, <<"0", "-">>, <<"0", "-">>>>
  /\ q_spec.n = 2 /\ q_spec.on = {0, 3}
  /\ q_verdict.dup_count = 1 /\ q_verdict.off_hit_count = 2

====
